---- MODULE Spec2Model ----
(***************************************************************************)
(* Project scheduling (CPM/PERT) of ayms94/Ordonnancement.                 *)
(*                                                                         *)
(* A task record is the tuple (t_id, dur, preds) of                        *)
(* read_constraints_from_file, written [id, dur, preds].  preds is a set:  *)
(* the code only tests it for emptiness, iterates over it, takes max/min   *)
(* over it and tests membership (count_arcs, which is not modelled, is the *)
(* only reader of its length).                                             *)
(*                                                                         *)
(* A Python dict is a function whose DOMAIN is its key set; reading a key  *)
(* that is absent is a KeyError.  The adjacency matrix is a function       *)
(* 0..n-1 -> 0..n-1 -> cell, where a cell is Star (the '*' of the code)    *)
(* or <<w>> for an arc of weight w.                                        *)
(***************************************************************************)
EXTENDS Integers, Sequences, FiniteSets, TLC

\* Bounds of the model.
MaxTasks == 3
MaxDur == 1
MaxFileTasks == 2

VARIABLES
    tasks,           \* the TaskSet: a sequence of task records
    pc,              \* position of the caller
    err,             \* "" or the name of the exception that was raised
    calls,           \* history: the core functions called on this TaskSet, in order
    matrix,          \* result of build_adjacency_matrix
    negative,        \* result of has_negative_arcs
    cycle,           \* result of detect_cycle
    ranks,           \* assign_ranks: the dict ranks
    changed,         \* assign_ranks: the flag of the while loop
    passes,          \* history: full passes of the while loop of assign_ranks
    sorted_by_rank,  \* compute_schedules: the sorted task list
    earliest,        \* compute_schedules: dict earliest
    latest,          \* compute_schedules: dict latest
    k,               \* compute_schedules: index of the next task of the running for loop
    ewrites,         \* history: keys of earliest in the order they were written
    lwrites,         \* history: keys of latest in the order they were written
    slacks           \* result of calculate_slacks

vars == <<tasks, pc, err, calls, matrix, negative, cycle, ranks, changed, passes,
          sorted_by_rank, earliest, latest, k, ewrites, lwrites, slacks>>

----------------------------------------------------------------------------
\* Helpers

Max(S) == CHOOSE x \in S : \A y \in S : y <= x
Min(S) == CHOOSE x \in S : \A y \in S : x <= y

Ids(ts) == {ts[i].id : i \in 1..Len(ts)}
PredsOf(ts) == UNION {ts[i].preds : i \in 1..Len(ts)}

\* '*' : no arc
Star == <<>>

\* The first record of ts, from position i on, whose id is p: <<dur>>, or <<>> (None).
RECURSIVE FindDuration(_, _, _)
FindDuration(p, ts, i) ==
    IF i > Len(ts) THEN <<>>
    ELSE IF ts[i].id = p THEN <<ts[i].dur>>
    ELSE FindDuration(p, ts, i + 1)

pred_duration(p, ts) == FindDuration(p, ts, 1)

get_duration(task_id, ts) ==
    LET d == FindDuration(task_id, ts, 1) IN IF d = <<>> THEN 0 ELSE d[1]

count_vertices(ts) == Len(ts) + 2

----------------------------------------------------------------------------
\* build_adjacency_matrix

\* matrix[i][j] = w on r = [err, m]; Python list indexing: -n..n-1 are valid
\* indices, a negative one counting from the end, anything else an IndexError.
PyIndex(i, n) == IF i < 0 THEN i + n ELSE i

Put(r, i, j, w) ==
    LET n == Cardinality(DOMAIN r.m) IN
    IF r.err THEN r
    ELSE IF i < 0 - n \/ i >= n \/ j < 0 - n \/ j >= n THEN [r EXCEPT !.err = TRUE]
    ELSE [r EXCEPT !.m[PyIndex(i, n)][PyIndex(j, n)] = <<w>>]

\* for p in preds: the arcs p -> t_id whose predecessor is found
RECURSIVE PlacePreds(_, _, _, _)
PlacePreds(r, ts, t_id, ps) ==
    IF ps = {} THEN r
    ELSE LET p == Min(ps)
             d == pred_duration(p, ts)
         IN PlacePreds(IF d = <<>> THEN r ELSE Put(r, p, t_id, d[1]), ts, t_id, ps \ {p})

\* for (t_id, dur, preds) in tasks: arcs from alpha or from the predecessors
RECURSIVE PlaceArcs(_, _, _)
PlaceArcs(r, ts, i) ==
    IF i > Len(ts) THEN r
    ELSE LET t == ts[i] IN
         PlaceArcs(IF t.preds = {} THEN Put(r, 0, t.id, 0)
                   ELSE PlacePreds(r, ts, t.id, t.preds), ts, i + 1)

\* for (t_id, dur, _) in tasks: if t_id in no_succ: arcs to omega
RECURSIVE PlaceOmega(_, _, _, _)
PlaceOmega(r, ts, omega, i) ==
    IF i > Len(ts) THEN r
    ELSE PlaceOmega(IF ts[i].id \in Ids(ts) \ PredsOf(ts)
                    THEN Put(r, ts[i].id, omega, ts[i].dur) ELSE r, ts, omega, i + 1)

build_omega(ts) == (Len(ts) + 2) - 1

\* [err |-> an IndexError was raised, m |-> the matrix]
build_adjacency_matrix(ts) ==
    LET nb_sommets == Len(ts) + 2
        empty == [err |-> FALSE,
                  m |-> [i \in 0..(nb_sommets - 1) |-> [j \in 0..(nb_sommets - 1) |-> Star]]]
    IN PlaceOmega(PlaceArcs(empty, ts, 1), ts, build_omega(ts), 1)

----------------------------------------------------------------------------
\* Validator

has_negative_arcs(ts) == \E i \in 1..Len(ts) : ts[i].dur < 0

MatLen(m) == Cardinality(DOMAIN m)

\* Mutant: `if matrix[i][j]` for `if matrix[i][j] != "*"`: an arc of weight 0 is not seen
in_degree_truthy(m) ==
    [j \in DOMAIN m |-> Cardinality({i \in DOMAIN m : m[i][j] # Star /\ m[i][j] # <<0>>})]

in_degree(m) == [j \in DOMAIN m |-> Cardinality({i \in DOMAIN m : m[i][j] # Star})]

\* range(n) as a sequence
PyRange(n) == [i \in 1..n |-> i - 1]

\* while queue: pop the head, count it, release its neighbours
RECURSIVE KahnLoop(_, _, _, _)
KahnLoop(m, queue, deg, count_visited) ==
    IF queue = <<>> THEN count_visited
    ELSE LET u == Head(queue)
             deg2 == [v \in DOMAIN m |-> IF m[u][v] # Star THEN deg[v] - 1 ELSE deg[v]]
             released == SelectSeq(PyRange(MatLen(m)),
                                   LAMBDA v : m[u][v] # Star /\ deg2[v] = 0)
         IN KahnLoop(m, Tail(queue) \o released, deg2, count_visited + 1)

\* Mutant: `count_visited <= n` for `count_visited < n`
detect_cycle_le(m) ==
    LET deg == in_degree(m)
        queue == SelectSeq(PyRange(MatLen(m)), LAMBDA i : deg[i] = 0)
    IN KahnLoop(m, queue, deg, 0) <= MatLen(m)

detect_cycle(m) ==
    LET deg == in_degree(m)
        queue == SelectSeq(PyRange(MatLen(m)), LAMBDA i : deg[i] = 0)
    IN KahnLoop(m, queue, deg, 0) < MatLen(m)

----------------------------------------------------------------------------
\* TaskSets

Perms(S) == {s \in [1..Cardinality(S) -> S] : {s[i] : i \in DOMAIN s} = S}

\* The records of the ids of order, in that order.
MkTasks(order, D, P) == [i \in DOMAIN order |-> [id |-> order[i], dur |-> D[order[i]], preds |-> P[order[i]]]]

Unset == <<>>

InitLocals ==
    /\ err = ""
    /\ calls = <<>>
    /\ matrix = Unset
    /\ negative = FALSE
    /\ cycle = FALSE
    /\ ranks = Unset
    /\ changed = FALSE
    /\ passes = 0
    /\ sorted_by_rank = <<>>
    /\ earliest = Unset
    /\ latest = Unset
    /\ k = 0
    /\ ewrites = <<>>
    /\ lwrites = <<>>
    /\ slacks = Unset


----------------------------------------------------------------------------
\* assign_ranks

rank_omega(ts) == Max({0} \cup Ids(ts)) + 1

init_ranks(ts) == [v \in {0} \cup Ids(ts) \cup {rank_omega(ts)} |-> 0]

\* for (t_id, _, preds) in tasks, from record i on; r = [ranks, changed, err]
RECURSIVE RankLoop(_, _, _)
RankLoop(r, ts, i) ==
    IF i > Len(ts) \/ r.err THEN r
    ELSE LET t == ts[i] IN
         IF t.preds # {}
         THEN IF ~(t.preds \subseteq DOMAIN r.ranks)
              THEN [r EXCEPT !.err = TRUE]
              ELSE LET max_pred_rank == Max({r.ranks[p] : p \in t.preds})
                       new_rank == max_pred_rank + 1
                   IN IF new_rank > r.ranks[t.id]
                      THEN RankLoop([r EXCEPT !.ranks[t.id] = new_rank, !.changed = TRUE], ts, i + 1)
                      ELSE RankLoop(r, ts, i + 1)
         ELSE IF t.id # 0 /\ r.ranks[t.id] = 0
              THEN RankLoop([r EXCEPT !.ranks[t.id] = 1, !.changed = TRUE], ts, i + 1)
              ELSE RankLoop(r, ts, i + 1)

\* Mutant: the rank of omega without the `+ 1`
omega_rank_no_increment(rk, omega) == Max({rk[t] : t \in DOMAIN rk \ {omega}})

\* Mutant: the maximum taken over every key, omega included (no `if t != omega`)
omega_rank_all_keys(rk, omega) == Max({rk[t] : t \in DOMAIN rk}) + 1

\* the update of the rank of omega that ends a pass
omega_rank(rk, omega) == Max({rk[t] : t \in DOMAIN rk \ {omega}}) + 1

\* one pass of the while loop: changed = False, the for loop, the update of omega
rank_pass(rk, ts) ==
    LET omega == Max(DOMAIN rk)
        r == RankLoop([ranks |-> rk, changed |-> FALSE, err |-> FALSE], ts, 1)
        current_omega_rank == omega_rank(r.ranks, omega)
    IN IF r.err THEN r
       ELSE IF current_omega_rank # r.ranks[omega]
       THEN [r EXCEPT !.ranks[omega] = current_omega_rank, !.changed = TRUE]
       ELSE r

----------------------------------------------------------------------------
\* compute_schedules

\* d[key] = v
DictSet(d, key, v) == [x \in DOMAIN d \cup {key} |-> IF x = key THEN v ELSE d[x]]

\* Mutant: the tasks in the order of the file, not sorted by rank
unsorted_tasks(ts, rk) == ts

\* sorted(tasks, key=lambda x: ranks[x[0]]): a stable sort
sorted_tasks(ts, rk) ==
    LET Before(i, j) == \/ rk[ts[i].id] < rk[ts[j].id]
                        \/ rk[ts[i].id] = rk[ts[j].id] /\ i < j
        Pos(n) == CHOOSE j \in 1..Len(ts) :
                      Cardinality({i \in 1..Len(ts) : Before(i, j)}) = n - 1
    IN [n \in 1..Len(ts) |-> ts[Pos(n)]]

\* max(earliest[p] + get_duration(p, tasks) for p in preds)
earliest_date(e, ts, ps) == Max({e[p] + get_duration(p, ts) : p \in ps})

\* Mutant: min for max in the date of omega
earliest_omega_min(e, ts) ==
    LET no_succ == Ids(ts) \ PredsOf(ts)
    IN IF no_succ # {} THEN Min({e[t] + get_duration(t, ts) : t \in no_succ}) ELSE 0

\* earliest[omega]
earliest_omega(e, ts) ==
    LET no_succ == Ids(ts) \ PredsOf(ts)
    IN IF no_succ # {} THEN Max({e[t] + get_duration(t, ts) : t \in no_succ}) ELSE 0

\* succs = [tid for (tid, _, pds) in tasks if t_id in pds]
Succs(t_id, ts) == {ts[i].id : i \in {j \in 1..Len(ts) : t_id \in ts[j].preds}}

\* min(latest[s] for s in succs) - dur
latest_date(l, succs, dur) == Min({l[s] : s \in succs}) - dur

----------------------------------------------------------------------------
\* calculate_slacks

\* [err |-> a KeyError was raised, slacks |-> the dict]
calculate_slacks(e, l) ==
    LET all_nodes == DOMAIN e \cup DOMAIN l
    IN IF \E node \in all_nodes : node \notin DOMAIN l \/ node \notin DOMAIN e
       THEN [err |-> TRUE, slacks |-> Unset]
       ELSE [err |-> FALSE, slacks |-> [node \in all_nodes |-> l[node] - e[node]]]

\* show_critical_path: the nodes of margin 0
critical_nodes(s) == {node \in DOMAIN s : s[node] = 0}

----------------------------------------------------------------------------
\* The steps of a caller of the core functions

MaxPasses == MaxTasks + MaxFileTasks + 4

Called(f) == \E i \in 1..Len(calls) : calls[i] = f

Raise(e) ==
    /\ pc' = "crash"
    /\ err' = e

Build ==
    /\ pc = "build"
    /\ calls' = Append(calls, "build_adjacency_matrix")
    /\ LET r == build_adjacency_matrix(tasks)
       IN IF r.err
          THEN Raise("IndexError") /\ UNCHANGED matrix
          ELSE pc' = "negative" /\ matrix' = r.m /\ UNCHANGED err
    /\ UNCHANGED <<tasks, negative, cycle, ranks, changed, passes, sorted_by_rank,
                   earliest, latest, k, ewrites, lwrites, slacks>>

HasNegative ==
    /\ pc = "negative"
    /\ calls' = Append(calls, "has_negative_arcs")
    /\ negative' = has_negative_arcs(tasks)
    /\ pc' = "cycle"
    /\ UNCHANGED <<tasks, err, matrix, cycle, ranks, changed, passes, sorted_by_rank,
                   earliest, latest, k, ewrites, lwrites, slacks>>

DetectCycle ==
    /\ pc = "cycle"
    /\ calls' = Append(calls, "detect_cycle")
    /\ cycle' = detect_cycle(matrix)
    /\ pc' = "gate"
    /\ UNCHANGED <<tasks, err, matrix, negative, ranks, changed, passes, sorted_by_rank,
                   earliest, latest, k, ewrites, lwrites, slacks>>

\* Mutant: `if negative:` for `if negative or cycle:`
gate_aborts_negative_only(neg, cyc) == neg

\* if negative or cycle: ... continue
gate_aborts(neg, cyc) == neg \/ cyc

GateProceed ==
    /\ pc = "gate"
    /\ ~gate_aborts(negative, cycle)
    /\ pc' = "ranks"
    /\ UNCHANGED <<tasks, err, calls, matrix, negative, cycle, ranks, changed, passes,
                   sorted_by_rank, earliest, latest, k, ewrites, lwrites, slacks>>

RankInit ==
    /\ pc = "ranks"
    /\ calls' = Append(calls, "assign_ranks")
    /\ ranks' = init_ranks(tasks)
    /\ changed' = TRUE
    /\ passes' = 0
    /\ pc' = "relax"
    /\ UNCHANGED <<tasks, err, matrix, negative, cycle, sorted_by_rank,
                   earliest, latest, k, ewrites, lwrites, slacks>>

RankPass ==
    /\ pc = "relax"
    /\ changed
    /\ passes < MaxPasses
    /\ passes' = passes + 1
    /\ LET r == rank_pass(ranks, tasks)
       IN IF r.err
          THEN Raise("KeyError") /\ UNCHANGED <<ranks, changed>>
          ELSE ranks' = r.ranks /\ changed' = r.changed /\ UNCHANGED <<pc, err>>
    /\ UNCHANGED <<tasks, calls, matrix, negative, cycle, sorted_by_rank,
                   earliest, latest, k, ewrites, lwrites, slacks>>

RankDone ==
    /\ pc = "relax"
    /\ ~changed
    /\ pc' = "schedules"
    /\ UNCHANGED <<tasks, err, calls, matrix, negative, cycle, ranks, changed, passes,
                   sorted_by_rank, earliest, latest, k, ewrites, lwrites, slacks>>

SchedInit ==
    /\ pc = "schedules"
    /\ calls' = Append(calls, "compute_schedules")
    /\ earliest' = (0 :> 0)
    /\ ewrites' = <<0>>
    /\ latest' = Unset
    /\ lwrites' = <<>>
    /\ sorted_by_rank' = sorted_tasks(tasks, ranks)
    /\ k' = 1
    /\ pc' = "forward"
    /\ UNCHANGED <<tasks, err, matrix, negative, cycle, ranks, changed, passes, slacks>>

ForwardStep ==
    /\ pc = "forward"
    /\ k <= Len(sorted_by_rank)
    /\ k' = k + 1
    /\ LET t == sorted_by_rank[k]
       IN IF t.preds # {}
          THEN IF t.preds \subseteq DOMAIN earliest
               THEN /\ earliest' = DictSet(earliest, t.id, earliest_date(earliest, tasks, t.preds))
                    /\ ewrites' = Append(ewrites, t.id)
                    /\ UNCHANGED <<pc, err>>
               ELSE Raise("KeyError") /\ UNCHANGED <<earliest, ewrites>>
          ELSE IF t.id # 0
               THEN /\ earliest' = DictSet(earliest, t.id, earliest[0])
                    /\ ewrites' = Append(ewrites, t.id)
                    /\ UNCHANGED <<pc, err>>
               ELSE UNCHANGED <<earliest, ewrites, pc, err>>
    /\ UNCHANGED <<tasks, calls, matrix, negative, cycle, ranks, changed, passes,
                   sorted_by_rank, latest, lwrites, slacks>>

ForwardOmega ==
    /\ pc = "forward"
    /\ k > Len(sorted_by_rank)
    /\ LET omega == Max(DOMAIN ranks)
           e == DictSet(earliest, omega, earliest_omega(earliest, tasks))
       IN /\ earliest' = e
          /\ ewrites' = Append(ewrites, omega)
          /\ latest' = DictSet(latest, omega, e[omega])
          /\ lwrites' = Append(lwrites, omega)
    /\ k' = Len(sorted_by_rank)
    /\ pc' = "backward"
    /\ UNCHANGED <<tasks, err, calls, matrix, negative, cycle, ranks, changed, passes,
                   sorted_by_rank, slacks>>

BackwardStep ==
    /\ pc = "backward"
    /\ k >= 1
    /\ k' = k - 1
    /\ LET t == sorted_by_rank[k]
           omega == Max(DOMAIN ranks)
           succs == Succs(t.id, tasks)
       IN IF succs = {}
          THEN IF t.id # omega
               THEN /\ latest' = DictSet(latest, t.id, latest[omega] - t.dur)
                    /\ lwrites' = Append(lwrites, t.id)
                    /\ UNCHANGED <<pc, err>>
               ELSE UNCHANGED <<latest, lwrites, pc, err>>
          ELSE IF succs \subseteq DOMAIN latest
               THEN /\ latest' = DictSet(latest, t.id, latest_date(latest, succs, t.dur))
                    /\ lwrites' = Append(lwrites, t.id)
                    /\ UNCHANGED <<pc, err>>
               ELSE Raise("KeyError") /\ UNCHANGED <<latest, lwrites>>
    /\ UNCHANGED <<tasks, calls, matrix, negative, cycle, ranks, changed, passes,
                   sorted_by_rank, earliest, ewrites, slacks>>

\* return earliest, latest; the caller goes on at `to`
SchedReturn(to) ==
    /\ pc = "backward"
    /\ k = 0
    /\ pc' = to
    /\ UNCHANGED <<tasks, err, calls, matrix, negative, cycle, ranks, changed, passes,
                   sorted_by_rank, earliest, latest, k, ewrites, lwrites, slacks>>

CalcSlacks ==
    /\ pc = "slacks"
    /\ calls' = Append(calls, "calculate_slacks")
    /\ LET r == calculate_slacks(earliest, latest)
       IN IF r.err
          THEN Raise("KeyError") /\ UNCHANGED slacks
          ELSE pc' = "critical" /\ slacks' = r.slacks /\ UNCHANGED err
    /\ UNCHANGED <<tasks, matrix, negative, cycle, ranks, changed, passes, sorted_by_rank,
                   earliest, latest, k, ewrites, lwrites>>


----------------------------------------------------------------------------
\* The TaskSets the specifications start from

\* The precedence graph of ts has a circuit: some non-empty set of tasks each
\* of which has a predecessor in the set.
HasCycle(ts) ==
    \E S \in SUBSET Ids(ts) :
        /\ S # {}
        /\ \A i \in 1..Len(ts) : ts[i].id \in S => ts[i].preds \cap S # {}

Resolved(ts) == PredsOf(ts) \subseteq Ids(ts)

UniqueIds(ts) == Cardinality(Ids(ts)) = Len(ts)

\* A predecessor map over the tasks 1..n without a circuit
Dag(n, P) == ~ \E S \in SUBSET (1..n) : S # {} /\ \A t \in S : P[t] \cap S # {}

AscDesc(n) == {[i \in 1..n |-> i], [i \in 1..n |-> n + 1 - i]}

\* Valid TaskSets, in every order of the records, all tasks of one duration
RankSets(ts) ==
    \E n \in 0..MaxTasks : \E P \in [1..n -> SUBSET (1..n)] :
        /\ Dag(n, P)
        /\ \E o \in Perms(1..n), d \in 0..MaxDur : ts = MkTasks(o, [t \in 1..n |-> d], P)

\* Valid TaskSets with every choice of durations, records by ascending or descending id
SchedSets(ts) ==
    \E n \in 0..MaxTasks : \E P \in [1..n -> SUBSET (1..n)] :
        /\ Dag(n, P)
        /\ \E o \in AscDesc(n), D \in [1..n -> 0..MaxDur] : ts = MkTasks(o, D, P)

\* TaskSets with ids 1..n and resolved predecessors, with or without circuits
GraphSets(ts) ==
    \E n \in 0..MaxTasks : \E P \in [1..n -> SUBSET (1..n)] :
        \E o \in AscDesc(n), d \in (0 - 1)..MaxDur : ts = MkTasks(o, [t \in 1..n |-> d], P)

\* What a file can hold: distinct positive ids with or without gaps, predecessors
\* that are tasks or not, durations of either sign
FileSets(ts) ==
    \E n \in 0..MaxFileTasks :
        \E o \in {s \in [1..n -> 1..(n + 1)] : Cardinality({s[i] : i \in 1..n}) = n},
           D \in [1..n -> {0 - 1, MaxDur}],
           P \in [1..n -> SUBSET (1..(n + 1))] :
            ts = [i \in 1..n |-> [id |-> o[i], dur |-> D[i], preds |-> P[i]]]

----------------------------------------------------------------------------
\* The core functions applied in the order of the pipeline

NextCore ==
    \/ Build
    \/ HasNegative
    \/ DetectCycle
    \/ GateProceed
    \/ RankInit
    \/ RankPass
    \/ RankDone
    \/ SchedInit
    \/ ForwardStep
    \/ ForwardOmega
    \/ BackwardStep
    \/ SchedReturn("slacks")
    \/ CalcSlacks

InitRank == RankSets(tasks) /\ pc = "build" /\ InitLocals
SpecRank == InitRank /\ [][NextCore]_vars

InitSched == SchedSets(tasks) /\ pc = "build" /\ InitLocals
SpecSched == InitSched /\ [][NextCore]_vars

NextGraph ==
    \/ Build
    \/ HasNegative
    \/ DetectCycle

InitGraph == GraphSets(tasks) /\ pc = "build" /\ InitLocals
SpecGraph == InitGraph /\ [][NextGraph]_vars

----------------------------------------------------------------------------
\* main: the interactive loop, one dataset per iteration

\* input(...) and read_constraints_from_file: a file is read
Choose ==
    /\ pc = "prompt"
    /\ FileSets(tasks')
    /\ pc' = "show"
    /\ UNCHANGED <<err, calls, matrix, negative, cycle, ranks, changed, passes,
                   sorted_by_rank, earliest, latest, k, ewrites, lwrites, slacks>>

\* FileNotFoundError, ValueError: continue
ReadFails ==
    /\ pc = "prompt"
    /\ UNCHANGED vars

\* 'q': sys.exit(0)
Quit ==
    /\ pc = "prompt"
    /\ pc' = "exit"
    /\ UNCHANGED <<tasks, err, calls, matrix, negative, cycle, ranks, changed, passes,
                   sorted_by_rank, earliest, latest, k, ewrites, lwrites, slacks>>

\* show_constraints_overview, show_arcs: max(all_tasks) of no task is a ValueError
Show ==
    /\ pc = "show"
    /\ IF Ids(tasks) = {} THEN Raise("ValueError") ELSE pc' = "build" /\ UNCHANGED err
    /\ UNCHANGED <<tasks, calls, matrix, negative, cycle, ranks, changed, passes,
                   sorted_by_rank, earliest, latest, k, ewrites, lwrites, slacks>>

\* continue: the next iteration starts from nothing of this one
GateAbort ==
    /\ pc = "gate"
    /\ gate_aborts(negative, cycle)
    /\ pc' = "prompt"
    /\ tasks' = <<>>
    /\ err' = ""
    /\ calls' = <<>>
    /\ matrix' = Unset
    /\ negative' = FALSE
    /\ cycle' = FALSE
    /\ UNCHANGED <<ranks, changed, passes, sorted_by_rank, earliest, latest, k,
                   ewrites, lwrites, slacks>>

\* print(f"Sommet {n} : ES = {earliest[n]} / LF = {latest[n]}") for the keys of ranks
PrintDates ==
    /\ pc = "dates"
    /\ IF \A n \in DOMAIN ranks : n \in DOMAIN earliest /\ n \in DOMAIN latest
       THEN pc' = "slacks" /\ UNCHANGED err
       ELSE Raise("KeyError")
    /\ UNCHANGED <<tasks, calls, matrix, negative, cycle, ranks, changed, passes,
                   sorted_by_rank, earliest, latest, k, ewrites, lwrites, slacks>>

\* calculate_slacks is not among the steps: PrintDates never gets to it (NoSlacksInMain)
Next ==
    \/ Choose
    \/ ReadFails
    \/ Quit
    \/ Show
    \/ Build
    \/ HasNegative
    \/ DetectCycle
    \/ GateAbort
    \/ GateProceed
    \/ RankInit
    \/ RankPass
    \/ RankDone
    \/ SchedInit
    \/ ForwardStep
    \/ ForwardOmega
    \/ BackwardStep
    \/ SchedReturn("dates")
    \/ PrintDates

Init == tasks = <<>> /\ pc = "prompt" /\ InitLocals
Spec == Init /\ [][Next]_vars

\* main never gets to line 93: line 89 reads latest[0], which compute_schedules never writes
NoSlacksInMain == pc # "slacks"

----------------------------------------------------------------------------
\* Properties

Omega(ts) == Max({0} \cup Ids(ts)) + 1

RanksReturned == pc = "schedules" \/ Called("compute_schedules")

SchedulesReturned == pc = "slacks" \/ pc = "dates" \/ Called("calculate_slacks")

NoDuplicates(seq) == \A i, j \in 1..Len(seq) : seq[i] = seq[j] => i = j

WrittenBefore(seq, a, b) ==
    \E i, j \in 1..Len(seq) : i < j /\ seq[i] = a /\ seq[j] = b

\* C1: once calculate_slacks has been called on the dates of a non-empty valid
\* TaskSet, the zero-slack vertices include alpha (0) and omega.
C1_CriticalPathExists ==
    (Called("calculate_slacks") /\ tasks # <<>>) =>
        /\ critical_nodes(slacks) # {}
        /\ 0 \in critical_nodes(slacks)
        /\ Omega(tasks) \in critical_nodes(slacks)

\* C2: a TaskSet with a predecessor id that is no task id never gets to the
\* validation step: build_adjacency_matrix ends in an error.
C2_UnresolvedStopsBeforeValidation ==
    ~Resolved(tasks) =>
        /\ ~Called("has_negative_arcs")
        /\ ~Called("detect_cycle")
        /\ Called("build_adjacency_matrix") => pc = "crash"

\* C3: for ids 1..n and resolved predecessors, detect_cycle on the matrix of
\* build_adjacency_matrix is True exactly when the precedence graph has a circuit.
C3_CycleIff ==
    Called("detect_cycle") => (cycle <=> HasCycle(tasks))

C3_Witness ==
    /\ Called("detect_cycle")
    /\ cycle
    /\ Len(tasks) = 2
    /\ tasks[1].preds = {tasks[2].id}
    /\ tasks[2].preds = {tasks[1].id}

\* C4: assign_ranks, compute_schedules and calculate_slacks run only after both
\* validation checks, and only when both flags are false; a dataset with a flag
\* set is left for the next one.
C4_Gate ==
    /\ [](Called("assign_ranks") \/ Called("compute_schedules") \/ Called("calculate_slacks")
            => /\ Len(calls) >= 4
               /\ \E i, j \in 1..Len(calls) :
                    /\ calls[i] = "has_negative_arcs"
                    /\ calls[j] = "detect_cycle"
                    /\ \A n \in 1..Len(calls) :
                         calls[n] \in {"assign_ranks", "compute_schedules", "calculate_slacks"}
                            => i < n /\ j < n
               /\ ~negative
               /\ ~cycle)
    /\ [][pc = "gate" /\ (negative \/ cycle) => pc' = "prompt"]_vars

C4_Witness ==
    /\ pc = "gate"
    /\ cycle
    /\ ~negative
    /\ Called("detect_cycle")

\* C5: when compute_schedules has returned, every vertex with both dates has
\* latest >= earliest.
C5_SlackNonNegative ==
    SchedulesReturned =>
        \A v \in DOMAIN earliest \cap DOMAIN latest : latest[v] - earliest[v] >= 0

C5_Witness ==
    /\ SchedulesReturned
    /\ Len(tasks) = 3
    /\ \E v \in DOMAIN earliest \cap DOMAIN latest : latest[v] - earliest[v] > 0
    /\ \E v \in Ids(tasks) : latest[v] = earliest[v] /\ earliest[v] > 0

\* C6: the map of assign_ranks is total over {0} + ids + {omega}, with rank 0 for
\* alpha, 1 for a task without predecessors, 1 + the largest rank of its
\* predecessors for any other task, 1 + the largest rank of the others for omega.
C6_Ranks ==
    RanksReturned =>
        /\ DOMAIN ranks = {0} \cup Ids(tasks) \cup {Omega(tasks)}
        /\ ranks[0] = 0
        /\ \A i \in 1..Len(tasks) :
             ranks[tasks[i].id] =
                IF tasks[i].preds = {} THEN 1
                ELSE 1 + Max({ranks[p] : p \in tasks[i].preds})
        /\ ranks[Omega(tasks)] =
             1 + Max({ranks[v] : v \in DOMAIN ranks \ {Omega(tasks)}})

C6_Witness ==
    /\ RanksReturned
    /\ Len(tasks) = 3
    /\ \E i \in 1..3 : ranks[tasks[i].id] = 3
    /\ ranks[Omega(tasks)] = 4

\* C7: the omega of build_adjacency_matrix is the omega of assign_ranks, and
\* every task id is an index of the matrix other than 0 and omega.
C7_OneOmega ==
    (Called("build_adjacency_matrix") /\ UniqueIds(tasks)) =>
        /\ build_omega(tasks) = rank_omega(tasks)
        /\ \A t \in Ids(tasks) : 0 < t /\ t < build_omega(tasks)

\* C8: on the empty TaskSet there are 2 vertices, detect_cycle is False, the loop
\* of assign_ranks stops, and compute_schedules gives omega the dates 0 and 0.
C8_EmptyTaskSet ==
    tasks = <<>> =>
        /\ count_vertices(tasks) = 2
        /\ Called("detect_cycle") => ~cycle
        /\ pc # "crash" \/ Called("calculate_slacks")
        /\ (pc = "relax" /\ passes >= 2) => ~changed
        /\ SchedulesReturned => earliest[Omega(tasks)] = 0 /\ latest[Omega(tasks)] = 0

C8_Witness ==
    /\ tasks = <<>>
    /\ SchedulesReturned
    /\ Called("detect_cycle")
    /\ passes = 2

\* C9: the while loop of assign_ranks makes at most |tasks| + 2 passes, the last
\* one without a change, and no rank exceeds |tasks| + 2.
C9_RankTermination ==
    Called("assign_ranks") =>
        /\ passes <= count_vertices(tasks)
        /\ (pc = "relax" /\ passes >= count_vertices(tasks)) => ~changed
        /\ \A v \in DOMAIN ranks : ranks[v] <= count_vertices(tasks)
        /\ pc # "crash" \/ Called("compute_schedules")

C9_Witness ==
    /\ RanksReturned
    /\ Len(tasks) = 3
    /\ passes = 4

\* C10: compute_schedules reads no date before it is written and writes none
\* twice; earliest[t] is written after earliest[p] of every predecessor p, and
\* latest[t] after latest[s] of every successor s.
C10_DateOrder ==
    Called("compute_schedules") =>
        /\ pc # "crash" \/ Called("calculate_slacks")
        /\ NoDuplicates(ewrites)
        /\ NoDuplicates(lwrites)
        /\ \A i \in 1..Len(tasks) :
             /\ \A n \in 1..Len(ewrites) :
                  ewrites[n] = tasks[i].id =>
                      \A p \in tasks[i].preds : WrittenBefore(ewrites, p, tasks[i].id)
             /\ \A n \in 1..Len(lwrites) :
                  lwrites[n] = tasks[i].id =>
                      \A s \in Succs(tasks[i].id, tasks) : WrittenBefore(lwrites, s, tasks[i].id)
        /\ SchedulesReturned =>
             /\ DOMAIN earliest = {0} \cup Ids(tasks) \cup {Omega(tasks)}
             /\ DOMAIN latest = Ids(tasks) \cup {Omega(tasks)}

C10_Witness ==
    /\ SchedulesReturned
    /\ Len(tasks) = 3
    /\ tasks[2].id \in tasks[1].preds
    /\ tasks[3].id \in tasks[2].preds

====
